---- MODULE Spec2Model ----
(***************************************************************************)
(* The 3D toy-model notebook (src/3d-toy-model.ipynb) as a state machine:  *)
(* spheres() synthesises a label grid, the membrane loop dilates each      *)
(* label's indicator image, the cell mask and the geometry image are       *)
(* derived from the two, the image is written to geom3d.tiff and imported. *)
(* A voxel is a triple <<z, y, x>>; a grid is a function on the voxels of  *)
(* its shape <<Z, Y, X>>.                                                  *)
(***************************************************************************)
EXTENDS Integers, Sequences, FiniteSets, TLC

\* ---------------------------------------------------------------- bounds
\* largest n_spheres argument explored
MaxSpheres == 2
\* largest max_radius argument explored
MaxRadius == 6
\* largest label value of the label grids drawn as pipeline inputs
MaxLabel == 2

\* n_pixels arguments of the whole notebook (4 leaves no admissible centre)
PixelChoices == {4, 5}
\* n_pixels arguments of spheres() explored on its own
SpheresPixelChoices == {4, 6}
\* max_radius arguments explored: 2 and 3 leave no admissible nuclear_radius
RadiusChoices == {2, 3, MaxRadius}
\* max_deform = 1.5, as a rational MaxDeformNum / MaxDeformDen
MaxDeform == <<3, 2>>
\* deformation factors are rationals over this denominator
DeformDen == 4
\* the deformation triples <<dz, dy, dx>> (numerators over DeformDen) drawn
\* from uniform(1/max_deform, max_deform, 3): (1, 1, 1) and (0.75, 1.5, 1)
DeformChoices == {<<4, 4, 4>>, <<3, 6, 4>>}
\* shape of the label grids drawn as inputs of the membrane extractor
TinyShape == <<2, 2, 2>>
\* the single-sphere scenario: a sphere of radius 5 with deformation (1,1,1)
\* centred in a 20x20x20 grid (the centre of 0..19 lies between 9 and 10)
Scenario ==
    [shape |-> <<20, 20, 20>>, radius |-> 5, centers |-> {9, 10},
     deformation |-> <<DeformDen, DeformDen, DeformDen>>]

\* largest number N of geometry images (and so of models) explored
MaxModels == 3
\* n_pixels argument of generate_geometry_image: the smallest grid for which
\* the range of nuclear_radius is not empty
FitPixels == 12
\* the n_pixels arguments of generate_geometry_image explored when its draws
\* are followed one by one
GeneratePixelChoices == {4, 6, FitPixels}
\* max_deform = 1.2 of generate_geometry_image, as a rational
FitMaxDeform == <<6, 5>>
\* the (center, cell_radius) pairs drawn by generate_geometry_image
FitDrawChoices ==
    {[center |-> <<2, 2, 2>>, cell_radius |-> 3],
     [center |-> <<9, 6, 5>>, cell_radius |-> 2]}

\* largest number of calls of cost_function explored
MaxCalls == 2
\* the params arguments <<k1, diffusion constant>> explored, in tenths:
\* [1.2, 0.7] and [0.5, 2.0]
ParamChoices == {<<12, 7>>, <<5, 20>>}
\* the concentrations of A_cell a simulation ends with inside the cell
\* compartment: at the target value 1 and above it
ConcLevels == {1, 3}
\* the values of the geometry image the cell compartment can stand for: the
\* inner sphere, written last by generate_geometry_image
CompartmentColours == {1}

\* largest length of the values argument of make_discrete_colormap explored
MaxValues == 4
\* plt.get_cmap(cmap).colors of the colormaps explored: lists of RGB triples
\* (in tenths), shorter than the 10 colours of "tab10"
CmapChoices ==
    {<<(<<1, 5, 7>>), (<<10, 5, 1>>)>>,
     <<(<<1, 5, 7>>), (<<10, 5, 1>>), (<<2, 6, 2>>)>>}

\* the RGB triples of the images given to rgb_to_scalar
Palette == {<<0, 0, 0>>, <<0, 255, 0>>, <<255, 0, 0>>}
\* the shapes of those images: (n, m, 3) and (z, y, x, 3)
RgbShapes == {<<2, 2, 3>>, <<1, 1, 2, 3>>}

\* the threshold_value arguments of plot3D: an int, or the default list [1, 0]
ThresholdChoices == {[int |-> 1], [list |-> <<1, 0>>]}

\* shape (height, width) of the label images given to the 2D notebook
Shape2D == <<2, 4>>
\* the colours of the 2D geometry image
CellColour == <<100, 100, 255>>
MembraneColour == <<255, 100, 100>>

\* ---------------------------------------------------------------- arrays
\* A numpy array is its shape <<Z, Y, X>> and its data in C order: the voxel
\* <<z, y, x>> is stored at the flat index (z * Y + y) * X + x.
Size(grid_shape) == grid_shape[1] * grid_shape[2] * grid_shape[3]
Flat(grid_shape) == 0 .. Size(grid_shape) - 1
Coord(grid_shape, k) ==
    <<k \div (grid_shape[2] * grid_shape[3]),
      (k \div grid_shape[3]) % grid_shape[2],
      k % grid_shape[3]>>
Ravel(grid_shape, c) == (c[1] * grid_shape[2] + c[2]) * grid_shape[3] + c[3]

\* np.zeros(shape): every voxel holds the zero value of the dtype
NpZeros(grid_shape, zero) ==
    [shape |-> grid_shape, data |-> [k \in Flat(grid_shape) |-> zero]]

\* a name that is not bound yet
Unbound == [shape |-> <<0, 0, 0>>, data |-> <<>>]

\* dtype=np.uint16 / np.uint8: a stored value keeps the low bits
Uint16(n) == n % 65536
Uint8(n) == n % 256

\* arr.max() of a non-empty array of naturals
ArrayMax(arr) ==
    LET vals == {arr.data[k] : k \in DOMAIN arr.data}
    IN  CHOOSE m \in vals : \A n \in vals : n <= m

\* ---------------------------------------------------------------- sampling
\* variant: the closed interval [low, high] of np.random.random_integers
Randint_Closed(low, high) == low .. high

\* np.random.randint(low, high): the integers of [int(low), int(high) - 1];
\* the call raises ValueError("low >= high") when that set is empty
Randint(low, high) == low .. (high - 1)

\* np.random.randint(2, n_pixels - 2, 3)
CenterRange(np) == Randint(2, np - 2)
\* np.random.randint(1, max_radius / 2): int() truncates the quotient
NuclearRange(mr) == Randint(1, mr \div 2)
\* np.random.randint(1.5 * nuclear_radius, max_radius): int() truncates 1.5 * r
CellRange(nr, mr) == Randint((3 * nr) \div 2, mr)

\* np.random.uniform(1 / max_deform, max_deform, 3): the drawn triples, each
\* factor within [1/max_deform, max_deform]
Deformations ==
    {d \in DeformChoices :
        \A i \in 1..3 :
            /\ d[i] * MaxDeform[1] >= DeformDen * MaxDeform[2]
            /\ d[i] * MaxDeform[2] <= DeformDen * MaxDeform[1]}

\* variant: range(1, n_spheres + 2)
SphereIndices_OneMore(n) == 1 .. (n + 1)

\* range(1, n_spheres + 1)
SphereIndices(n) == 1 .. n

\* the draws of one loop body, in order: center, nuclear_radius, cell_radius;
\* the first one whose range is empty raises
DrawCanRaise(np, mr) ==
    \/ CenterRange(np) = {}
    \/ NuclearRange(mr) = {}
    \/ \E nuclear_radius \in NuclearRange(mr) : CellRange(nuclear_radius, mr) = {}

\* the inequality of sphere_mask at the voxel c = <<z, y, x>>:
\*   dx*(x-x0)**2 + dy*(y-y0)**2 + dz*(z-z0)**2 <= radius**2
\* with the deformation factors given as numerators over DeformDen
InEllipsoid(c, center, radius, deformation) ==
    deformation[3] * (c[3] - center[3]) ^ 2
      + deformation[2] * (c[2] - center[2]) ^ 2
      + deformation[1] * (c[1] - center[1]) ^ 2
    <= DeformDen * radius ^ 2

\* sphere_mask(grid_shape, center, radius, deformation)
sphere_mask(grid_shape, center, radius, deformation) ==
    [shape |-> grid_shape,
     data  |-> [k \in Flat(grid_shape) |->
                   InEllipsoid(Coord(grid_shape, k), center, radius, deformation)]]

\* variant: a voxel that already holds a label keeps it
MaskedAssign_KeepFirst(arr, mask, value) ==
    [shape |-> arr.shape,
     data  |-> [k \in DOMAIN arr.data |->
                   IF mask.data[k] /\ arr.data[k] = 0 THEN value ELSE arr.data[k]]]

\* arr[mask] = value
MaskedAssign(arr, mask, value) ==
    [shape |-> arr.shape,
     data  |-> [k \in DOMAIN arr.data |-> IF mask.data[k] THEN value ELSE arr.data[k]]]

\* ---------------------------------------------------------------- dilation
\* variant: the 3x3x3 structuring element (the unused `kernel`)
FaceNeighbours_Kernel(grid_shape, k) ==
    LET c == Coord(grid_shape, k)
    IN  {Ravel(grid_shape, u) :
            u \in {w \in ((c[1] - 1) .. (c[1] + 1)) \X ((c[2] - 1) .. (c[2] + 1))
                             \X ((c[3] - 1) .. (c[3] + 1)) :
                      /\ w # c
                      /\ \A i \in 1..3 : w[i] >= 0 /\ w[i] < grid_shape[i]}}

\* the in-grid face neighbours of the voxel at flat index k: the connectivity-1
\* structuring element ndi.binary_dilation uses when no structure is passed
FaceNeighbours(grid_shape, k) ==
    LET c == Coord(grid_shape, k)
    IN  {Ravel(grid_shape, u) :
            u \in {w \in {<<c[1] - 1, c[2], c[3]>>, <<c[1] + 1, c[2], c[3]>>,
                          <<c[1], c[2] - 1, c[3]>>, <<c[1], c[2] + 1, c[3]>>,
                          <<c[1], c[2], c[3] - 1>>, <<c[1], c[2], c[3] + 1>>} :
                      \A i \in 1..3 : w[i] >= 0 /\ w[i] < grid_shape[i]}}

\* ndi.binary_dilation(img): one pass, border_value 0; a voxel is set when it
\* or one of its face neighbours is non-zero in img
binary_dilation(img) ==
    [shape |-> img.shape,
     data  |-> [k \in DOMAIN img.data |->
                   img.data[k] # 0
                   \/ \E u \in FaceNeighbours(img.shape, k) : img.data[u] # 0]]

\* (img_indexed == index).astype(np.uint8)
Indicator(arr, idx) ==
    [shape |-> arr.shape,
     data  |-> [k \in DOMAIN arr.data |-> IF arr.data[k] = idx THEN 1 ELSE 0]]

\* ndi.binary_dilation(img) != img: the boolean result against the 0/1 image
DilationDiff(img) ==
    LET dil == binary_dilation(img)
    IN  [shape |-> img.shape,
         data  |-> [k \in DOMAIN img.data |-> dil.data[k] # (img.data[k] # 0)]]

\* variant: the loop skips the background value 0
LoopRange_FromOne(arr) == 1 .. (ArrayMax(arr) - 1)

\* range(img_indexed.max()): the label values the loop visits
LoopRange(arr) == 0 .. (ArrayMax(arr) - 1)

\* a |= b
\* variant: the pass is assigned to the mask instead of or-ed into it
ArrayOr_Assign(a, b) == b

\* a |= b
ArrayOr(a, b) ==
    [shape |-> a.shape, data |-> [k \in DOMAIN a.data |-> a.data[k] \/ b.data[k]]]

\* variant: img_indexed == 0
NonZero_Inverted(arr) ==
    [shape |-> arr.shape, data |-> [k \in DOMAIN arr.data |-> arr.data[k] = 0]]

\* img_indexed != 0
NonZero(arr) ==
    [shape |-> arr.shape, data |-> [k \in DOMAIN arr.data |-> arr.data[k] # 0]]

\* variant: the membrane voxels are not taken out of the cell mask
ExcludeMembrane_Keep(cell, membrane) == cell

\* img_cell_mask & (img_cell_mask != img_membrane_mask)
ExcludeMembrane(cell, membrane) ==
    [shape |-> cell.shape,
     data  |-> [k \in DOMAIN cell.data |->
                   cell.data[k] /\ (cell.data[k] # membrane.data[k])]]

\* ---------------------------------------------------------------- state
VARIABLES
    pc,                 \* position in the notebook
    n_pixels,           \* spheres() argument
    n_spheres,          \* spheres() argument
    max_radius,         \* spheres() argument
    voxels,             \* spheres(): the grid being filled
    n_sphere,           \* spheres(): loop variable
    sampled,            \* spheres(): the (center, nuclear_radius, deformation) drawn so far
    raised,             \* the exception that ended the run, or "none"
    img_indexed,        \* the label grid
    img_membrane_mask,  \* the membrane mask
    index,              \* membrane loop variable
    img_cell_mask,      \* the cell mask
    img,                \* the indicator image of the loop, then the geometry image
    geom3d_tiff,        \* contents of the file geom3d.tiff
    n_writes,           \* number of tifffile.imwrite calls made
    model_geometry,     \* the geometry image the sme model imported
    prev_membrane_mask, \* the membrane mask the previous execution of the cell left
    n_runs,             \* number of completed executions of the membrane cell
    geometry_images,    \* fitting notebook: the list of label images
    sme_models,         \* the sme.Model objects created so far, by identity 1, 2, ...
    models,             \* fitting notebook: the list of models (object identities)
    m,                  \* fitting notebook: the model of the loop body (0: not bound)
    pos,                \* position of the running for loop in its list
    params,             \* cost_function(): the argument
    cost,               \* cost_function(): the running total
    simulated,          \* cost_function(): the simulations run by this call
    n_calls,            \* number of calls of cost_function that returned
    values,             \* make_discrete_colormap(): the argument
    cmap,               \* make_discrete_colormap(): plt.get_cmap(cmap).colors
    cm,                 \* make_discrete_colormap(): the list being built
    cycle_pos,          \* make_discrete_colormap(): position of cycle(...) in the colours
    data,               \* plot3D(): the argument
    plot_data,          \* plot3D(): the local _data
    plotter,            \* plot3D(): the pv.Plotter, once created
    ret,                \* the value the function called last returned
    geom_png            \* 2D notebook: contents of the file geom.png

vars == <<pc, n_pixels, n_spheres, max_radius, voxels, n_sphere, sampled, raised,
          img_indexed, img_membrane_mask, index, img_cell_mask, img,
          geom3d_tiff, n_writes, model_geometry, prev_membrane_mask, n_runs,
          geometry_images, sme_models, models, m, pos, params, cost, simulated, n_calls,
          values, cmap, cm, cycle_pos, data, plot_data, plotter, ret, geom_png>>

spheresVars == <<n_pixels, n_spheres, max_radius, voxels, n_sphere, sampled>>
pipeVars == <<img_membrane_mask, index, img_cell_mask, img>>
ioVars == <<geom3d_tiff, n_writes, model_geometry>>
rerunVars == <<prev_membrane_mask, n_runs>>
fitVars == <<geometry_images, sme_models, models, m, pos, params, cost, simulated, n_calls>>
plotVars == <<values, cmap, cm, cycle_pos, data, plot_data, plotter, ret>>
\* what the notebook's first pass through its cells leaves alone
sessionVars == <<rerunVars, fitVars, plotVars, geom_png>>

\* no cell has been executed a second time
RerunFresh ==
    /\ prev_membrane_mask = Unbound
    /\ n_runs = 0

\* nothing of the fitting notebook is bound
FitUnbound ==
    /\ geometry_images = <<>>
    /\ sme_models = <<>>
    /\ models = <<>>
    /\ m = 0
    /\ pos = 0
    /\ params = <<>>
    /\ cost = 0
    /\ simulated = <<>>
    /\ n_calls = 0

\* a name that holds no object
None == [none |-> TRUE]

\* no plotting helper has been called
PlotUnbound ==
    /\ values = <<>>
    /\ cmap = <<>>
    /\ cm = <<>>
    /\ cycle_pos = 0
    /\ data = Unbound
    /\ plot_data = Unbound
    /\ plotter = None
    /\ ret = None

SessionFresh == RerunFresh /\ FitUnbound /\ PlotUnbound

\* what the models loop and cost_function never bind
toyVars == <<spheresVars, raised, img_indexed, img_membrane_mask, index, img_cell_mask,
             model_geometry, rerunVars, plotVars, geom_png>>

\* what the plotting helpers never bind
helperFrame == <<spheresVars, img_indexed, pipeVars, ioVars, rerunVars, fitVars, geom_png>>

\* nothing of the pipeline is bound before its cell has run
PipeUnbound ==
    /\ img_membrane_mask = Unbound
    /\ index = 0
    /\ img_cell_mask = Unbound
    /\ img = Unbound
    /\ geom3d_tiff = Unbound
    /\ n_writes = 0
    /\ model_geometry = Unbound
    /\ geom_png = Unbound

\* no call of spheres() is in progress
NoCall ==
    /\ n_pixels = 0
    /\ n_spheres = 0
    /\ max_radius = 0
    /\ voxels = Unbound
    /\ n_sphere = 0
    /\ sampled = <<>>

\* the label grids of a shape with labels 0..top
LabelGrids(grid_shape, top) ==
    {[shape |-> grid_shape, data |-> d] : d \in [Flat(grid_shape) -> 0 .. top]}

\* img_indexed = spheres(n_pixels=.., n_spheres=.., max_radius=.., max_deform=1.5)
\* is about to be called with n_pixels drawn from the given set
InitCall(pixels) ==
    /\ pc = "call_spheres"
    /\ n_pixels \in pixels
    /\ n_spheres \in 0 .. MaxSpheres
    /\ max_radius \in RadiusChoices
    /\ voxels = Unbound
    /\ n_sphere = 0
    /\ sampled = <<>>
    /\ raised = "none"
    /\ img_indexed = Unbound
    /\ PipeUnbound
    /\ SessionFresh

Init == InitCall(PixelChoices)

\* ---------------------------------------------------------------- spheres()
\* voxels = np.zeros((n_pixels, n_pixels, n_pixels), dtype=np.uint16); the
\* loop starts at n_sphere = 1
SpheresEnter ==
    /\ pc = "call_spheres"
    /\ pc' = "spheres_loop"
    /\ voxels' = NpZeros(<<n_pixels, n_pixels, n_pixels>>, 0)
    /\ n_sphere' = 1
    /\ UNCHANGED <<n_pixels, n_spheres, max_radius, sampled, raised, img_indexed>>
    /\ UNCHANGED pipeVars
    /\ UNCHANGED ioVars
    /\ UNCHANGED sessionVars

\* one pass of the loop body: center, nuclear_radius, cell_radius and
\* deformation are drawn, then the voxels of the mask get the label n_sphere
SphereBody ==
    /\ pc = "spheres_loop"
    /\ n_sphere \in SphereIndices(n_spheres)
    /\ \E z0 \in CenterRange(n_pixels), y0 \in CenterRange(n_pixels),
          x0 \in CenterRange(n_pixels), nuclear_radius \in NuclearRange(max_radius),
          deformation \in Deformations :
          /\ CellRange(nuclear_radius, max_radius) # {}
          /\ voxels' = MaskedAssign(voxels,
                           sphere_mask(<<n_pixels, n_pixels, n_pixels>>,
                                       <<z0, y0, x0>>, nuclear_radius, deformation),
                           Uint16(n_sphere))
          /\ sampled' = Append(sampled, [center |-> <<z0, y0, x0>>,
                                         radius |-> nuclear_radius,
                                         deformation |-> deformation])
    /\ n_sphere' = n_sphere + 1
    /\ UNCHANGED <<pc, n_pixels, n_spheres, max_radius, raised, img_indexed>>
    /\ UNCHANGED pipeVars
    /\ UNCHANGED ioVars
    /\ UNCHANGED sessionVars

\* a draw of the loop body has an empty range: np.random.randint raises
\* ValueError, nothing catches it and the run ends there
SphereRaise ==
    /\ pc = "spheres_loop"
    /\ n_sphere \in SphereIndices(n_spheres)
    /\ DrawCanRaise(n_pixels, max_radius)
    /\ pc' = "raised"
    /\ raised' = "ValueError"
    /\ UNCHANGED <<n_pixels, n_spheres, max_radius, voxels, n_sphere, sampled, img_indexed>>
    /\ UNCHANGED pipeVars
    /\ UNCHANGED ioVars
    /\ UNCHANGED sessionVars

\* return voxels: the result is bound to img_indexed, the frame is gone
SpheresReturn ==
    /\ pc = "spheres_loop"
    /\ n_sphere \notin SphereIndices(n_spheres)
    /\ pc' = "membrane_init"
    /\ img_indexed' = voxels
    /\ voxels' = Unbound
    /\ n_sphere' = 0
    /\ sampled' = <<>>
    /\ UNCHANGED <<n_pixels, n_spheres, max_radius, raised>>
    /\ UNCHANGED pipeVars
    /\ UNCHANGED ioVars
    /\ UNCHANGED sessionVars

\* ---------------------------------------------------------------- membrane extractor
\* variant: the loop variable keeps the value the previous execution left
MembraneInit_KeepIndex ==
    /\ pc = "membrane_init"
    /\ pc' = "membrane_loop"
    /\ img_membrane_mask' = NpZeros(img_indexed.shape, FALSE)
    /\ index' = index
    /\ UNCHANGED <<img_indexed, img_cell_mask, img, raised>>
    /\ UNCHANGED spheresVars
    /\ UNCHANGED ioVars
    /\ UNCHANGED sessionVars

\* img_membrane_mask = np.zeros(img_indexed.shape).astype(bool); kernel is
\* computed and never used
MembraneInit ==
    /\ pc = "membrane_init"
    /\ pc' = "membrane_loop"
    /\ img_membrane_mask' = NpZeros(img_indexed.shape, FALSE)
    /\ index' = 0
    /\ UNCHANGED <<img_indexed, img_cell_mask, img, raised>>
    /\ UNCHANGED spheresVars
    /\ UNCHANGED ioVars
    /\ UNCHANGED sessionVars

\* one pass of `for index in range(img_indexed.max())`:
\*   img = (img_indexed == index).astype(np.uint8)
\*   img_membrane_mask |= ndi.binary_dilation(img) != img
MembranePass ==
    /\ pc = "membrane_loop"
    /\ index \in LoopRange(img_indexed)
    /\ img' = Indicator(img_indexed, index)
    /\ img_membrane_mask' = ArrayOr(img_membrane_mask, DilationDiff(img'))
    /\ index' = index + 1
    /\ UNCHANGED <<pc, img_indexed, img_cell_mask, raised>>
    /\ UNCHANGED spheresVars
    /\ UNCHANGED ioVars
    /\ UNCHANGED sessionVars

\* the range is exhausted
MembraneDone ==
    /\ pc = "membrane_loop"
    /\ index \notin LoopRange(img_indexed)
    /\ pc' = "cell_mask"
    /\ UNCHANGED <<img_indexed, raised>>
    /\ UNCHANGED pipeVars
    /\ UNCHANGED spheresVars
    /\ UNCHANGED ioVars
    /\ UNCHANGED sessionVars

\* the cell of the membrane extractor is executed again on the label grid
\* that is still bound: every name the first execution bound is still there
Rerun ==
    /\ pc = "cell_mask"
    /\ n_runs = 0
    /\ pc' = "membrane_init"
    /\ prev_membrane_mask' = img_membrane_mask
    /\ n_runs' = n_runs + 1
    /\ UNCHANGED <<img_indexed, raised>>
    /\ UNCHANGED pipeVars
    /\ UNCHANGED spheresVars
    /\ UNCHANGED ioVars
    /\ UNCHANGED fitVars
    /\ UNCHANGED plotVars
    /\ UNCHANGED geom_png

\* ---------------------------------------------------------------- compartment classifier
\* img_cell_mask = img_indexed != 0
CellMaskOccupied ==
    /\ pc = "cell_mask"
    /\ pc' = "cell_mask_exclude"
    /\ img_cell_mask' = NonZero(img_indexed)
    /\ UNCHANGED <<img_indexed, img_membrane_mask, index, img, raised>>
    /\ UNCHANGED spheresVars
    /\ UNCHANGED ioVars
    /\ UNCHANGED sessionVars

\* img_cell_mask = img_cell_mask & (img_cell_mask != img_membrane_mask)
CellMaskExclude ==
    /\ pc = "cell_mask_exclude"
    /\ pc' = "img_zeros"
    /\ img_cell_mask' = ExcludeMembrane(img_cell_mask, img_membrane_mask)
    /\ UNCHANGED <<img_indexed, img_membrane_mask, index, img, raised>>
    /\ UNCHANGED spheresVars
    /\ UNCHANGED ioVars
    /\ UNCHANGED sessionVars

\* img = np.zeros(img_cell_mask.shape, dtype=np.uint8)
ImgZeros ==
    /\ pc = "img_zeros"
    /\ pc' = "img_cell"
    /\ img' = NpZeros(img_cell_mask.shape, 0)
    /\ UNCHANGED <<img_indexed, img_membrane_mask, index, img_cell_mask, raised>>
    /\ UNCHANGED spheresVars
    /\ UNCHANGED ioVars
    /\ UNCHANGED sessionVars

\* variant: the image is also written to the file as soon as the cell value
\* is in it
ImgCell_WritesEarly ==
    /\ pc = "img_cell"
    /\ pc' = "img_membrane"
    /\ img' = MaskedAssign(img, img_cell_mask, Uint8(1))
    /\ geom3d_tiff' = img'
    /\ n_writes' = n_writes + 1
    /\ UNCHANGED <<img_indexed, img_membrane_mask, index, img_cell_mask, raised, model_geometry>>
    /\ UNCHANGED spheresVars
    /\ UNCHANGED sessionVars

\* img[img_cell_mask] = 1
ImgCell ==
    /\ pc = "img_cell"
    /\ pc' = "img_membrane"
    /\ img' = MaskedAssign(img, img_cell_mask, Uint8(1))
    /\ UNCHANGED <<img_indexed, img_membrane_mask, index, img_cell_mask, raised>>
    /\ UNCHANGED spheresVars
    /\ UNCHANGED ioVars
    /\ UNCHANGED sessionVars

\* variant: only unoccupied membrane voxels get the value 2
ImgMembrane_OutsideOnly ==
    /\ pc = "img_membrane"
    /\ pc' = "imwrite"
    /\ img' = MaskedAssign(img,
                  [shape |-> img.shape,
                   data  |-> [k \in DOMAIN img.data |->
                                 img_membrane_mask.data[k] /\ img_indexed.data[k] = 0]],
                  Uint8(2))
    /\ UNCHANGED <<img_indexed, img_membrane_mask, index, img_cell_mask, raised>>
    /\ UNCHANGED spheresVars
    /\ UNCHANGED ioVars
    /\ UNCHANGED sessionVars

\* img[img_membrane_mask] = 2
ImgMembrane ==
    /\ pc = "img_membrane"
    /\ pc' = "imwrite"
    /\ img' = MaskedAssign(img, img_membrane_mask, Uint8(2))
    /\ UNCHANGED <<img_indexed, img_membrane_mask, index, img_cell_mask, raised>>
    /\ UNCHANGED spheresVars
    /\ UNCHANGED ioVars
    /\ UNCHANGED sessionVars

\* tifffile.imwrite("geom3d.tiff", img)
ImWrite ==
    /\ pc = "imwrite"
    /\ pc' = "import_geometry"
    /\ geom3d_tiff' = img
    /\ n_writes' = n_writes + 1
    /\ UNCHANGED <<img_indexed, model_geometry, raised>>
    /\ UNCHANGED pipeVars
    /\ UNCHANGED spheresVars
    /\ UNCHANGED sessionVars

\* model.import_geometry_from_image("geom3d.tiff")
ImportGeometry ==
    /\ pc = "import_geometry"
    /\ pc' = "done"
    /\ model_geometry' = geom3d_tiff
    /\ UNCHANGED <<img_indexed, geom3d_tiff, n_writes, raised>>
    /\ UNCHANGED pipeVars
    /\ UNCHANGED spheresVars
    /\ UNCHANGED sessionVars

\* ---------------------------------------------------------------- 2D notebook
\* the in-image face neighbours of the pixel at flat index k of an image of
\* shape (height, width)
FaceNeighbours2D(image_shape, k) ==
    LET y == k \div image_shape[2]
        x == k % image_shape[2]
    IN  {w[1] * image_shape[2] + w[2] :
            w \in {v \in {<<y - 1, x>>, <<y + 1, x>>, <<y, x - 1>>, <<y, x + 1>>} :
                      /\ v[1] >= 0 /\ v[1] < image_shape[1]
                      /\ v[2] >= 0 /\ v[2] < image_shape[2]}}

\* variant: the dilation is applied once, whatever iterations says
binary_dilation_2d_Once(image, iterations) ==
    [shape |-> image.shape,
     data  |-> [k \in DOMAIN image.data |->
                   image.data[k] # 0
                   \/ \E u \in FaceNeighbours2D(image.shape, k) : image.data[u] # 0]]

\* ndi.binary_dilation(img, iterations=n) of a 2D image: the dilation with
\* the connectivity-1 element, border_value 0, repeated n times
RECURSIVE binary_dilation_2d(_, _)
binary_dilation_2d(image, iterations) ==
    IF iterations = 0
    THEN [shape |-> image.shape, data |-> [k \in DOMAIN image.data |-> image.data[k] # 0]]
    ELSE LET before == binary_dilation_2d(image, iterations - 1)
         IN  [shape |-> image.shape,
              data  |-> [k \in DOMAIN image.data |->
                            before.data[k]
                            \/ \E u \in FaceNeighbours2D(image.shape, k) : before.data[u]]]

\* ndi.binary_dilation(img, iterations=3) != img
DilationDiff2D(image) ==
    LET dil == binary_dilation_2d(image, 3)
    IN  [shape |-> image.shape,
         data  |-> [k \in DOMAIN image.data |-> dil.data[k] # (image.data[k] # 0)]]

\* img_membrane_mask = np.zeros(img_indexed.shape).astype(bool)
Membrane2DInit ==
    /\ pc = "membrane2d_init"
    /\ pc' = "membrane2d_loop"
    /\ img_membrane_mask' =
           [shape |-> img_indexed.shape, data |-> [k \in DOMAIN img_indexed.data |-> FALSE]]
    /\ index' = 0
    /\ UNCHANGED <<img_indexed, img_cell_mask, img, raised>>
    /\ UNCHANGED <<spheresVars, ioVars, sessionVars>>

\* one pass of `for index in range(img_indexed.max())`:
\*   img = (img_indexed == index).astype(np.uint8)
\*   img_membrane_mask |= ndi.binary_dilation(img, iterations=3) != img
Membrane2DPass ==
    /\ pc = "membrane2d_loop"
    /\ index \in LoopRange(img_indexed)
    /\ img' = Indicator(img_indexed, index)
    /\ img_membrane_mask' = ArrayOr(img_membrane_mask, DilationDiff2D(img'))
    /\ index' = index + 1
    /\ UNCHANGED <<pc, img_indexed, img_cell_mask, raised>>
    /\ UNCHANGED <<spheresVars, ioVars, sessionVars>>

\* the range is exhausted
Membrane2DDone ==
    /\ pc = "membrane2d_loop"
    /\ index \notin LoopRange(img_indexed)
    /\ pc' = "cell_mask2d"
    /\ UNCHANGED <<img_indexed, raised>>
    /\ UNCHANGED pipeVars
    /\ UNCHANGED <<spheresVars, ioVars, sessionVars>>

\* img_cell_mask = img_indexed != 0
\* img_cell_mask = img_cell_mask & (img_cell_mask != img_membrane_mask)
CellMask2D ==
    /\ pc = "cell_mask2d"
    /\ pc' = "img2d_zeros"
    /\ img_cell_mask' = ExcludeMembrane(NonZero(img_indexed), img_membrane_mask)
    /\ UNCHANGED <<img_indexed, img_membrane_mask, index, img, raised>>
    /\ UNCHANGED <<spheresVars, ioVars, sessionVars>>

\* arr[mask] = colour for an array of shape (height, width, 3) and a mask
\* of shape (height, width)
MaskedAssignRgb(arr, mask, colour) ==
    [shape |-> arr.shape,
     data  |-> [j \in DOMAIN arr.data |->
                   IF mask.data[j \div 3] THEN Uint8(colour[(j % 3) + 1]) ELSE arr.data[j]]]

\* img = np.zeros((*img_cell_mask.shape, 3), dtype=np.uint8)
Img2DZeros ==
    /\ pc = "img2d_zeros"
    /\ pc' = "img2d_cell"
    /\ img' = [shape |-> <<img_cell_mask.shape[1], img_cell_mask.shape[2], 3>>,
                data  |-> [j \in 0 .. 3 * Cardinality(DOMAIN img_cell_mask.data) - 1 |-> 0]]
    /\ UNCHANGED <<img_indexed, img_membrane_mask, index, img_cell_mask, raised>>
    /\ UNCHANGED <<spheresVars, ioVars, sessionVars>>

\* img[img_cell_mask] = [100, 100, 255]
Img2DCell ==
    /\ pc = "img2d_cell"
    /\ pc' = "img2d_membrane"
    /\ img' = MaskedAssignRgb(img, img_cell_mask, CellColour)
    /\ UNCHANGED <<img_indexed, img_membrane_mask, index, img_cell_mask, raised>>
    /\ UNCHANGED <<spheresVars, ioVars, sessionVars>>

\* img[img_membrane_mask] = [255, 100, 100]
Img2DMembrane ==
    /\ pc = "img2d_membrane"
    /\ pc' = "imwrite2d"
    /\ img' = MaskedAssignRgb(img, img_membrane_mask, MembraneColour)
    /\ UNCHANGED <<img_indexed, img_membrane_mask, index, img_cell_mask, raised>>
    /\ UNCHANGED <<spheresVars, ioVars, sessionVars>>

\* iio.imwrite("geom.png", img)
Im2DWrite ==
    /\ pc = "imwrite2d"
    /\ pc' = "done2d"
    /\ geom_png' = img
    /\ UNCHANGED <<img_indexed, raised>>
    /\ UNCHANGED pipeVars
    /\ UNCHANGED <<spheresVars, ioVars, rerunVars, fitVars, plotVars>>

\* the 2D notebook from the label image on
Next2D ==
    \/ Membrane2DInit
    \/ Membrane2DPass
    \/ Membrane2DDone
    \/ CellMask2D
    \/ Img2DZeros
    \/ Img2DCell
    \/ Img2DMembrane
    \/ Im2DWrite

\* ---------------------------------------------------------------- fitting notebook
\* max_radius = n_pixels / 3 is a float; the draws truncate it: int(n / 3) as
\* the upper end of cell_radius, int(n / 3 / 2) as that of nuclear_radius
FitMaxRadius(np) == np \div 3

\* np.random.uniform(1 / max_deform, max_deform, 3) with max_deform = 1.2
FitDeformations ==
    {d \in DeformChoices :
        \A i \in 1..3 :
            /\ d[i] * FitMaxDeform[1] >= DeformDen * FitMaxDeform[2]
            /\ d[i] * FitMaxDeform[2] <= DeformDen * FitMaxDeform[1]}

\* the body of generate_geometry_image(n_pixels) after its draws: the sphere
\* of cell_radius gets the value 2, then the sphere of nuclear_radius the value 1
generate_geometry_image(np, center, nuclear_radius, cell_radius, deformation) ==
    LET grid_shape == <<np, np, np>>
        cell == MaskedAssign(NpZeros(grid_shape, 0),
                    sphere_mask(grid_shape, center, cell_radius, deformation), Uint16(2))
    IN  MaskedAssign(cell,
            sphere_mask(grid_shape, center, nuclear_radius, deformation), Uint16(1))

\* the images generate_geometry_image(n_pixels) can return for the draws of
\* FitDrawChoices within their ranges
GeometryImages(np) ==
    {generate_geometry_image(np, draw.center, nuclear_radius, draw.cell_radius, deformation) :
        draw \in {d \in FitDrawChoices :
                     /\ \A i \in 1..3 : d.center[i] \in CenterRange(np)
                     /\ \E nr \in NuclearRange(FitMaxRadius(np)) :
                            d.cell_radius \in CellRange(nr, FitMaxRadius(np))},
        nuclear_radius \in NuclearRange(FitMaxRadius(np)),
        deformation \in FitDeformations}

\* generate_geometry_image(n_pixels) is entered: max_radius, max_deform and
\* the zero grid are bound
GenerateEnter ==
    /\ pc = "call_generate"
    /\ pc' = "generate_center"
    /\ max_radius' = FitMaxRadius(n_pixels)
    /\ voxels' = NpZeros(<<n_pixels, n_pixels, n_pixels>>, 0)
    /\ UNCHANGED <<n_pixels, n_spheres, n_sphere, sampled, raised, img_indexed>>
    /\ UNCHANGED <<pipeVars, ioVars, sessionVars>>

\* center = np.random.randint(2, n_pixels - 2, 3)
GenerateCenter ==
    /\ pc = "generate_center"
    /\ \E z0 \in CenterRange(n_pixels), y0 \in CenterRange(n_pixels),
          x0 \in CenterRange(n_pixels) :
          sampled' = Append(sampled, [center |-> <<z0, y0, x0>>])
    /\ pc' = "generate_radii"
    /\ UNCHANGED <<n_pixels, n_spheres, max_radius, voxels, n_sphere, raised, img_indexed>>
    /\ UNCHANGED <<pipeVars, ioVars, sessionVars>>

\* the range of the centre is empty: np.random.randint raises ValueError
GenerateCenterRaise ==
    /\ pc = "generate_center"
    /\ CenterRange(n_pixels) = {}
    /\ pc' = "raised"
    /\ raised' = "ValueError"
    /\ UNCHANGED <<spheresVars, img_indexed>>
    /\ UNCHANGED <<pipeVars, ioVars, sessionVars>>

\* nuclear_radius, cell_radius and deformation are drawn, the two spheres
\* are written and voxels is returned
GenerateBody ==
    /\ pc = "generate_radii"
    /\ \E nuclear_radius \in NuclearRange(max_radius), deformation \in FitDeformations :
          \E cell_radius \in CellRange(nuclear_radius, max_radius) :
              voxels' = generate_geometry_image(n_pixels, sampled[Len(sampled)].center,
                                                nuclear_radius, cell_radius, deformation)
    /\ pc' = "generated"
    /\ UNCHANGED <<n_pixels, n_spheres, max_radius, n_sphere, sampled, raised, img_indexed>>
    /\ UNCHANGED <<pipeVars, ioVars, sessionVars>>

\* the range of a radius is empty: np.random.randint raises ValueError
GenerateRadiusRaise ==
    /\ pc = "generate_radii"
    /\ DrawCanRaise(n_pixels, max_radius)
    /\ pc' = "raised"
    /\ raised' = "ValueError"
    /\ UNCHANGED <<spheresVars, img_indexed>>
    /\ UNCHANGED <<pipeVars, ioVars, sessionVars>>

\* one call of generate_geometry_image
NextGenerate ==
    \/ GenerateEnter
    \/ GenerateCenter
    \/ GenerateCenterRaise
    \/ GenerateBody
    \/ GenerateRadiusRaise

\* sme.Model("3d-model-parameter-fitting.xml"): a new object with the
\* geometry and the parameter values of the file (k1 is an expression string)
NewModel ==
    [geometry |-> Unbound, k1 |-> <<"str", 0>>, diffusion_constant |-> 10]

\* models = []
FitModelsInit ==
    /\ pc = "fit_models"
    /\ pc' = "fit_for"
    /\ models' = <<>>
    /\ pos' = 1
    /\ UNCHANGED <<geometry_images, sme_models, m, params, cost, simulated, n_calls>>
    /\ UNCHANGED <<img, geom3d_tiff, n_writes>>
    /\ UNCHANGED toyVars

\* for img in geometry_images: the next image is bound to img and
\* m = sme.Model("3d-model-parameter-fitting.xml") creates a new object
FitFor ==
    /\ pc = "fit_for"
    /\ pos <= Len(geometry_images)
    /\ pc' = "fit_imwrite"
    /\ img' = geometry_images[pos]
    /\ sme_models' = Append(sme_models, NewModel)
    /\ m' = Len(sme_models) + 1
    /\ UNCHANGED <<geometry_images, models, pos, params, cost, simulated, n_calls>>
    /\ UNCHANGED <<geom3d_tiff, n_writes>>
    /\ UNCHANGED toyVars

\* variant: an existing file is not overwritten
FitImWrite_KeepExisting ==
    /\ pc = "fit_imwrite"
    /\ pc' = "fit_import"
    /\ geom3d_tiff' = IF geom3d_tiff = Unbound THEN img ELSE geom3d_tiff
    /\ n_writes' = n_writes + 1
    /\ UNCHANGED fitVars
    /\ UNCHANGED img
    /\ UNCHANGED toyVars

\* tifffile.imwrite("geom3d.tiff", img)
FitImWrite ==
    /\ pc = "fit_imwrite"
    /\ pc' = "fit_import"
    /\ geom3d_tiff' = img
    /\ n_writes' = n_writes + 1
    /\ UNCHANGED fitVars
    /\ UNCHANGED img
    /\ UNCHANGED toyVars

\* m.import_geometry_from_image("geom3d.tiff")
FitImport ==
    /\ pc = "fit_import"
    /\ pc' = "fit_append"
    /\ sme_models' = [sme_models EXCEPT ![m].geometry = geom3d_tiff]
    /\ UNCHANGED <<geometry_images, models, m, pos, params, cost, simulated, n_calls>>
    /\ UNCHANGED <<img, geom3d_tiff, n_writes>>
    /\ UNCHANGED toyVars

\* models.append(m), and the loop goes on to the next image
FitAppend ==
    /\ pc = "fit_append"
    /\ pc' = "fit_for"
    /\ models' = Append(models, m)
    /\ pos' = pos + 1
    /\ UNCHANGED <<geometry_images, sme_models, m, params, cost, simulated, n_calls>>
    /\ UNCHANGED <<img, geom3d_tiff, n_writes>>
    /\ UNCHANGED toyVars

\* the list is exhausted
FitForDone ==
    /\ pc = "fit_for"
    /\ pos > Len(geometry_images)
    /\ pc' = "call_cost_function"
    /\ pos' = 0
    /\ UNCHANGED <<geometry_images, sme_models, models, m, params, cost, simulated, n_calls>>
    /\ UNCHANGED <<img, geom3d_tiff, n_writes>>
    /\ UNCHANGED toyVars

\* f"{params[0]}": the value as the text of an expression
FormatFloat(x) == <<"str", x>>

\* target = np.ones_like(geometry_images[0])
Target ==
    [shape |-> geometry_images[1].shape,
     data  |-> [k \in DOMAIN geometry_images[1].data |-> Uint16(1)]]

\* model.compartments["cell"].geometry_mask: the voxels of the compartment,
\* which the model identifies by a value of its geometry image
geometry_mask(geometry, colour) ==
    [shape |-> geometry.shape,
     data  |-> [k \in DOMAIN geometry.data |-> geometry.data[k] = colour]]

\* results[-1].species_concentration["A_cell"]: the level inside the cell
\* compartment, 0 outside it
species_concentration(mask, level) ==
    [shape |-> mask.shape,
     data  |-> [k \in DOMAIN mask.data |-> IF mask.data[k] THEN level ELSE 0]]

\* np.sum of the values f takes on the index set S
RECURSIVE NpSum(_, _)
NpSum(S, f) ==
    IF S = {} THEN 0
    ELSE LET k == CHOOSE x \in S : TRUE
         IN  f[k] + NpSum(S \ {k}, f)

\* variant: the differences are summed, not their squares
diff_NoSquare(conc, target, mask) ==
    NpSum({k \in DOMAIN mask.data : mask.data[k]},
          [k \in DOMAIN conc.data |-> target.data[k] - conc.data[k]])

\* diff(conc, target, mask): np.sum(np.power((target - conc)[mask], 2))
diff(conc, target, mask) ==
    NpSum({k \in DOMAIN mask.data : mask.data[k]},
          [k \in DOMAIN conc.data |-> (target.data[k] - conc.data[k]) ^ 2])

\* cost_function(params) is called: t = 10, cost = 0.0, and the first loop
\* starts
CostEnter ==
    /\ pc = "call_cost_function"
    /\ n_calls < MaxCalls
    /\ pc' = "cost_apply"
    /\ params' \in ParamChoices
    /\ cost' = 0
    /\ pos' = 1
    /\ simulated' = <<>>
    /\ UNCHANGED <<geometry_images, sme_models, models, m, n_calls>>
    /\ UNCHANGED <<img, geom3d_tiff, n_writes>>
    /\ UNCHANGED toyVars

\* variant: only the first model of the list gets the parameters
CostApply_FirstOnly ==
    /\ pc = "cost_apply"
    /\ pos <= Len(models)
    /\ sme_models' =
           IF pos = 1
           THEN [sme_models EXCEPT ![models[pos]].k1 = FormatFloat(params[1]),
                                   ![models[pos]].diffusion_constant = params[2]]
           ELSE sme_models
    /\ pos' = pos + 1
    /\ UNCHANGED <<pc, geometry_images, models, m, params, cost, simulated, n_calls>>
    /\ UNCHANGED <<img, geom3d_tiff, n_writes>>
    /\ UNCHANGED toyVars

\* one pass of the first loop:
\*   model.parameters["k1"].value = f"{params[0]}"
\*   model.compartments["membrane"].species["A_membrane"].diffusion_constant = params[1]
CostApply ==
    /\ pc = "cost_apply"
    /\ pos <= Len(models)
    /\ sme_models' = [sme_models EXCEPT ![models[pos]].k1 = FormatFloat(params[1]),
                                        ![models[pos]].diffusion_constant = params[2]]
    /\ pos' = pos + 1
    /\ UNCHANGED <<pc, geometry_images, models, m, params, cost, simulated, n_calls>>
    /\ UNCHANGED <<img, geom3d_tiff, n_writes>>
    /\ UNCHANGED toyVars

\* the first loop has ended, the second starts
CostApplyDone ==
    /\ pc = "cost_apply"
    /\ pos > Len(models)
    /\ pc' = "cost_simulate"
    /\ pos' = 1
    /\ UNCHANGED <<geometry_images, sme_models, models, m, params, cost, simulated, n_calls>>
    /\ UNCHANGED <<img, geom3d_tiff, n_writes>>
    /\ UNCHANGED toyVars

\* one pass of the second loop: the model is simulated with the parameter
\* values it holds, result_cost = diff(...) and cost += result_cost
CostSimulate ==
    /\ pc = "cost_simulate"
    /\ pos <= Len(models)
    /\ \E level \in ConcLevels, colour \in CompartmentColours :
          LET model == sme_models[models[pos]]
              mask == geometry_mask(model.geometry, colour)
              result_cost == diff(species_concentration(mask, level), Target, mask)
          IN  /\ cost' = cost + result_cost
              /\ simulated' = Append(simulated,
                                   [model |-> models[pos],
                                    k1 |-> model.k1,
                                    diffusion_constant |-> model.diffusion_constant,
                                    level |-> level,
                                    colour |-> colour])
    /\ pos' = pos + 1
    /\ UNCHANGED <<pc, geometry_images, sme_models, models, m, params, n_calls>>
    /\ UNCHANGED <<img, geom3d_tiff, n_writes>>
    /\ UNCHANGED toyVars

\* the second loop has ended: return cost is next
CostSimulateDone ==
    /\ pc = "cost_simulate"
    /\ pos > Len(models)
    /\ pc' = "cost_return"
    /\ UNCHANGED fitVars
    /\ UNCHANGED <<img, geom3d_tiff, n_writes>>
    /\ UNCHANGED toyVars

\* return cost: the frame is gone, the models keep what the call set
CostReturn ==
    /\ pc = "cost_return"
    /\ pc' = "call_cost_function"
    /\ params' = <<>>
    /\ cost' = 0
    /\ pos' = 0
    /\ simulated' = <<>>
    /\ n_calls' = n_calls + 1
    /\ UNCHANGED <<geometry_images, sme_models, models, m>>
    /\ UNCHANGED <<img, geom3d_tiff, n_writes>>
    /\ UNCHANGED toyVars

\* the calls of cost_function
NextCost ==
    \/ CostEnter
    \/ CostApply
    \/ CostApplyDone
    \/ CostSimulate
    \/ CostSimulateDone
    \/ CostReturn

\* the loop that builds the models
NextModels ==
    \/ FitModelsInit
    \/ FitFor
    \/ FitImWrite
    \/ FitImport
    \/ FitAppend
    \/ FitForDone

\* ---------------------------------------------------------------- plotting helpers
\* mcolors.to_rgba(c) of an RGB triple: the triple with alpha 1 (in tenths)
to_rgba(c) == <<c[1], c[2], c[3], 10>>

\* (0, 0, 0, 1)
Black == <<0, 0, 0, 10>>

\* the sorted arrays without repetition with entries in 0 .. n - 1, as
\* np.unique returns them
UniqueArrays(n) ==
    {v \in UNION {[1 .. len -> 0 .. n - 1] : len \in 0 .. n} :
        \A j \in 1 .. Len(v) - 1 : v[j] < v[j + 1]}

\* make_discrete_colormap(cmap, values) is entered: cm = [(0, 0, 0, 1)],
\* i = 0 (a counter nothing reads) and cycle(...) stands at the first colour
ColormapEnter ==
    /\ pc = "call_make_discrete_colormap"
    /\ pc' = "colormap_for"
    /\ cm' = <<Black>>
    /\ cycle_pos' = 1
    /\ UNCHANGED <<values, cmap, data, plot_data, plotter, ret, raised>>
    /\ UNCHANGED helperFrame

\* one pass of `for c in cycle(plt.get_cmap(cmap).colors)`:
\*   cm.append(mcolors.to_rgba(c)); if len(cm) >= len(values): break
ColormapAppend ==
    /\ pc = "colormap_for"
    /\ cmap # <<>>
    /\ cm' = Append(cm, to_rgba(cmap[cycle_pos]))
    /\ cycle_pos' = (cycle_pos % Len(cmap)) + 1
    /\ pc' = IF Len(cm') >= Len(values) THEN "colormap_return" ELSE "colormap_for"
    /\ UNCHANGED <<values, cmap, data, plot_data, plotter, ret, raised>>
    /\ UNCHANGED helperFrame

\* return cm
ColormapReturn ==
    /\ pc = "colormap_return"
    /\ pc' = "returned"
    /\ ret' = cm
    /\ cm' = <<>>
    /\ cycle_pos' = 0
    /\ UNCHANGED <<values, cmap, data, plot_data, plotter, raised>>
    /\ UNCHANGED helperFrame

\* the number of rows of img.reshape(-1, 3)
NumRows(arr) == Cardinality(DOMAIN arr.data) \div 3

\* variant: the three channels are read as three planes of the data
Row_Planar(arr, r) ==
    <<arr.data[r], arr.data[NumRows(arr) + r], arr.data[2 * NumRows(arr) + r]>>

\* row r of img.reshape(-1, 3): three consecutive values of the data
Row(arr, r) == <<arr.data[3 * r], arr.data[3 * r + 1], arr.data[3 * r + 2]>>

\* the order in which np.unique(..., axis=0) sorts the rows
LexLess(a, b) ==
    \/ a[1] < b[1]
    \/ a[1] = b[1] /\ a[2] < b[2]
    \/ a[1] = b[1] /\ a[2] = b[2] /\ a[3] < b[3]

\* rgb_to_scalar(img):
\*   reshaped = img.reshape(-1, 3)
\*   unique_rgb, ridx = np.unique(reshaped, axis=0, return_inverse=True)
\*   values = np.arange(len(unique_rgb))
\*   return values[ridx].reshape(img.shape[:-1])
rgb_to_scalar(arr) ==
    LET rows == 0 .. NumRows(arr) - 1
        reshaped == [r \in rows |-> Row(arr, r)]
        unique_rgb == {reshaped[r] : r \in rows}
        ridx == [r \in rows |->
                    Cardinality({u \in unique_rgb : LexLess(u, reshaped[r])})]
        arange == [j \in 0 .. Cardinality(unique_rgb) - 1 |-> j]
    IN  [shape |-> SubSeq(arr.shape, 1, Len(arr.shape) - 1),
         data  |-> [r \in rows |-> arange[ridx[r]]]]

\* the array of a shape whose last axis is 3 that holds the triple pixels[r]
\* at position r
RgbArray(rgb_shape, pixels) ==
    [shape |-> rgb_shape,
     data  |-> [k \in 0 .. 3 * Cardinality(DOMAIN pixels) - 1 |->
                   pixels[k \div 3][(k % 3) + 1]]]

\* the arrays of a shape with triples of Palette
RgbImages(rgb_shape) ==
    LET n == IF Len(rgb_shape) = 3 THEN rgb_shape[1] * rgb_shape[2]
             ELSE rgb_shape[1] * rgb_shape[2] * rgb_shape[3]
    IN  {RgbArray(rgb_shape, pixels) : pixels \in [0 .. n - 1 -> Palette]}

\* a call of rgb_to_scalar(img)
RgbToScalar ==
    /\ pc = "call_rgb_to_scalar"
    /\ pc' = "returned"
    /\ ret' = rgb_to_scalar(img)
    /\ UNCHANGED <<values, cmap, cm, cycle_pos, data, plot_data, plotter, raised>>
    /\ UNCHANGED helperFrame

\* np.swapaxes(arr, 0, 2).copy() of an array of 3 or 4 dimensions: the voxel
\* <<c1, c2, c3>> (and the channel c4) of the result is the voxel
\* <<c3, c2, c1>> of arr
swapaxes02(arr) ==
    LET s == arr.shape
        inner == IF Len(s) = 4 THEN s[4] ELSE 1
        swapped == [a \in 1 .. Len(s) |->
                       IF a = 1 THEN s[3] ELSE IF a = 3 THEN s[1] ELSE s[a]]
    IN  [shape |-> swapped,
         data  |-> [j \in DOMAIN arr.data |->
                       LET c4 == j % inner
                           c3 == (j \div inner) % swapped[3]
                           c2 == (j \div (inner * swapped[3])) % swapped[2]
                           c1 == j \div (inner * swapped[3] * swapped[2])
                       IN  arr.data[((c3 * s[2] + c2) * s[3] + c1) * inner + c4]]]

\* the arrays given to plot3D: of 2, 3, 4 (RGB) and 5 dimensions
PlotInputs ==
    {[shape |-> <<2, 2>>, data |-> d] : d \in [0 .. 3 -> 0 .. 1]}
    \cup {[shape |-> <<1, 2, 2>>, data |-> d] : d \in [0 .. 3 -> 0 .. 1]}
    \cup RgbImages(<<1, 1, 2, 3>>)
    \cup {[shape |-> <<1, 1, 1, 1, 3>>, data |-> d] : d \in [0 .. 2 -> {0, 255}]}

\* variant: the plotter is created before the dimensions are tested
Plot3DRaise_AfterPlotter ==
    /\ pc = "call_plot3D"
    /\ Len(data.shape) \notin {3, 4}
    /\ pc' = "raised"
    /\ raised' = "ValueError"
    /\ plotter' = [text |-> "", mesh |-> Unbound, threshold |-> 0]
    /\ UNCHANGED <<values, cmap, cm, cycle_pos, data, plot_data, ret>>
    /\ UNCHANGED helperFrame

\* if data.ndim not in [3, 4]: raise ValueError(...)
Plot3DRaise ==
    /\ pc = "call_plot3D"
    /\ Len(data.shape) \notin {3, 4}
    /\ pc' = "raised"
    /\ raised' = "ValueError"
    /\ UNCHANGED plotVars
    /\ UNCHANGED helperFrame

\* the test passes: _data = data
Plot3DData ==
    /\ pc = "call_plot3D"
    /\ Len(data.shape) \in {3, 4}
    /\ pc' = "plot_plotter"
    /\ plot_data' = data
    /\ UNCHANGED <<values, cmap, cm, cycle_pos, data, plotter, ret, raised>>
    /\ UNCHANGED helperFrame

\* plotter = pv.Plotter(border=False, notebook=True)
Plot3DPlotter ==
    /\ pc = "plot_plotter"
    /\ pc' = "plot_swap"
    /\ plotter' = [text |-> "", mesh |-> Unbound, threshold |-> 0]
    /\ UNCHANGED <<values, cmap, cm, cycle_pos, data, plot_data, ret, raised>>
    /\ UNCHANGED helperFrame

\* if with_swap: _data = np.swapaxes(data, 0, 2).copy()
Plot3DSwap ==
    /\ pc = "plot_swap"
    /\ pc' = "plot_scalar"
    /\ \E with_swap \in BOOLEAN :
          plot_data' = IF with_swap THEN swapaxes02(data) ELSE plot_data
    /\ UNCHANGED <<values, cmap, cm, cycle_pos, data, plotter, ret, raised>>
    /\ UNCHANGED helperFrame

\* if len(_data.shape) == 4: _data = rgb_to_scalar(_data)
Plot3DScalar ==
    /\ pc = "plot_scalar"
    /\ pc' = "plot_mesh"
    /\ plot_data' = IF Len(plot_data.shape) = 4 THEN rgb_to_scalar(plot_data) ELSE plot_data
    /\ UNCHANGED <<values, cmap, cm, cycle_pos, data, plotter, ret, raised>>
    /\ UNCHANGED helperFrame

\* an int threshold_value becomes [threshold_value, threshold_value]; the
\* image data of _data goes to the plotter with the title and the mesh
\* thresholded at threshold_value[0]; return plotter
Plot3DMesh ==
    /\ pc = "plot_mesh"
    /\ pc' = "returned"
    /\ \E threshold_value \in ThresholdChoices :
          LET pair == IF "int" \in DOMAIN threshold_value
                      THEN <<threshold_value.int, threshold_value.int>>
                      ELSE threshold_value.list
          IN  plotter' = [text |-> "title", mesh |-> plot_data, threshold |-> pair[1]]
    /\ ret' = plotter'
    /\ UNCHANGED <<values, cmap, cm, cycle_pos, data, plot_data, raised>>
    /\ UNCHANGED helperFrame

NextPlot3D ==
    \/ Plot3DRaise
    \/ Plot3DData
    \/ Plot3DPlotter
    \/ Plot3DSwap
    \/ Plot3DScalar
    \/ Plot3DMesh

NextColormap ==
    \/ ColormapEnter
    \/ ColormapAppend
    \/ ColormapReturn

\* ---------------------------------------------------------------- specifications
\* the classifier and the export
NextClassify ==
    \/ CellMaskOccupied
    \/ CellMaskExclude
    \/ ImgZeros
    \/ ImgCell
    \/ ImgMembrane
    \/ ImWrite
    \/ ImportGeometry

\* the pipeline from a label grid on
NextPipe ==
    \/ MembraneInit
    \/ MembranePass
    \/ MembraneDone
    \/ NextClassify

\* the call of spheres()
NextSpheres ==
    \/ SpheresEnter
    \/ SphereBody
    \/ SphereRaise
    \/ SpheresReturn

\* the notebook from the call of spheres() on
Next ==
    \/ NextSpheres
    \/ NextPipe

Spec == Init /\ [][Next]_vars

\* spheres() on its own, on the larger grids
InitSpheres == InitCall(SpheresPixelChoices)

SpecSpheres == InitSpheres /\ [][NextSpheres]_vars

\* the pipeline applied to every label grid of TinyShape with labels 0..MaxLabel
InitGrid ==
    /\ pc = "membrane_init"
    /\ NoCall
    /\ raised = "none"
    /\ img_indexed \in LabelGrids(TinyShape, MaxLabel)
    /\ PipeUnbound
    /\ SessionFresh

SpecGrid == InitGrid /\ [][NextPipe]_vars

\* the pipeline applied to a label grid that holds the single sphere of Scenario
InitScenario ==
    /\ pc = "membrane_init"
    /\ NoCall
    /\ raised = "none"
    /\ \E z0 \in Scenario.centers, y0 \in Scenario.centers, x0 \in Scenario.centers,
          label \in 1 .. MaxLabel :
          img_indexed =
              MaskedAssign(NpZeros(Scenario.shape, 0),
                           sphere_mask(Scenario.shape, <<z0, y0, x0>>,
                                       Scenario.radius, Scenario.deformation),
                           label)
    /\ PipeUnbound
    /\ SessionFresh

SpecScenario == InitScenario /\ [][NextPipe]_vars

\* the classifier applied to every pair of an occupancy pattern and a
\* membrane mask of TinyShape
InitClassify ==
    /\ pc = "cell_mask"
    /\ NoCall
    /\ raised = "none"
    /\ img_indexed \in
           {[shape |-> TinyShape, data |-> d] : d \in [Flat(TinyShape) -> {0, MaxLabel}]}
    /\ img_membrane_mask \in
           {[shape |-> TinyShape, data |-> d] : d \in [Flat(TinyShape) -> BOOLEAN]}
    /\ index = 0
    /\ img_cell_mask = Unbound
    /\ img = Unbound
    /\ geom3d_tiff = Unbound
    /\ n_writes = 0
    /\ model_geometry = Unbound
    /\ geom_png = Unbound
    /\ SessionFresh

SpecClassify == InitClassify /\ [][NextClassify]_vars

\* the membrane extractor executed twice on a label grid of TinyShape with
\* labels among 0, 1 and MaxLabel
NextRerun ==
    \/ MembraneInit
    \/ MembranePass
    \/ MembraneDone
    \/ Rerun

InitRerun ==
    /\ pc = "membrane_init"
    /\ NoCall
    /\ raised = "none"
    /\ img_indexed \in
           {[shape |-> TinyShape, data |-> d] : d \in [Flat(TinyShape) -> {0, 1, MaxLabel}]}
    /\ PipeUnbound
    /\ SessionFresh

SpecRerun == InitRerun /\ [][NextRerun]_vars

\* the fitting notebook from the cell that builds the models on, with
\* geometry_images = [generate_geometry_image(n_pixels) for _ in range(N)]
InitFit ==
    /\ pc = "fit_models"
    /\ NoCall
    /\ raised = "none"
    /\ img_indexed = Unbound
    /\ PipeUnbound
    /\ RerunFresh
    /\ \E N \in 1 .. MaxModels : geometry_images \in [1 .. N -> GeometryImages(FitPixels)]
    /\ sme_models = <<>>
    /\ models = <<>>
    /\ m = 0
    /\ pos = 0
    /\ params = <<>>
    /\ cost = 0
    /\ simulated = <<>>
    /\ n_calls = 0
    /\ PlotUnbound

NextFit ==
    \/ NextModels
    \/ NextCost

SpecFit == InitFit /\ [][NextFit]_vars

\* no notebook cell has bound anything
NothingBound ==
    /\ NoCall
    /\ raised = "none"
    /\ img_indexed = Unbound
    /\ PipeUnbound
    /\ RerunFresh
    /\ FitUnbound

\* make_discrete_colormap(cmap, values) called with a colormap of
\* CmapChoices and a values array of at most MaxValues entries
InitColormap ==
    /\ pc = "call_make_discrete_colormap"
    /\ NothingBound
    /\ values \in UniqueArrays(MaxValues)
    /\ cmap \in CmapChoices
    /\ cm = <<>>
    /\ cycle_pos = 0
    /\ data = Unbound
    /\ plot_data = Unbound
    /\ plotter = None
    /\ ret = None

SpecColormap == InitColormap /\ [][NextColormap]_vars

\* rgb_to_scalar(img) called with an image of RgbShapes
InitRgb ==
    /\ pc = "call_rgb_to_scalar"
    /\ NoCall
    /\ raised = "none"
    /\ img_indexed = Unbound
    /\ img_membrane_mask = Unbound
    /\ index = 0
    /\ img_cell_mask = Unbound
    /\ \E rgb_shape \in RgbShapes : img \in RgbImages(rgb_shape)
    /\ geom3d_tiff = Unbound
    /\ n_writes = 0
    /\ model_geometry = Unbound
    /\ geom_png = Unbound
    /\ SessionFresh

NextRgb == RgbToScalar

SpecRgb == InitRgb /\ [][NextRgb]_vars

\* plot3D(data, title, ...) called with an array of PlotInputs
InitPlot3D ==
    /\ pc = "call_plot3D"
    /\ NothingBound
    /\ values = <<>>
    /\ cmap = <<>>
    /\ cm = <<>>
    /\ cycle_pos = 0
    /\ data \in PlotInputs
    /\ plot_data = Unbound
    /\ plotter = None
    /\ ret = None

SpecPlot3D == InitPlot3D /\ [][NextPlot3D]_vars

\* the 2D notebook applied to every label image of Shape2D with labels among
\* 0, 1 and MaxLabel
Init2D ==
    /\ pc = "membrane2d_init"
    /\ NoCall
    /\ raised = "none"
    /\ img_indexed \in
           {[shape |-> Shape2D, data |-> d] :
               d \in [0 .. Shape2D[1] * Shape2D[2] - 1 -> {0, 1, MaxLabel}]}
    /\ PipeUnbound
    /\ SessionFresh

Spec2D == Init2D /\ [][Next2D]_vars

\* a call generate_geometry_image(n_pixels)
InitGenerate ==
    /\ pc = "call_generate"
    /\ n_pixels \in GeneratePixelChoices
    /\ n_spheres = 0
    /\ max_radius = 0
    /\ voxels = Unbound
    /\ n_sphere = 0
    /\ sampled = <<>>
    /\ raised = "none"
    /\ img_indexed = Unbound
    /\ PipeUnbound
    /\ SessionFresh

\* the two functions that sample object centres: a call of spheres() or a
\* call of generate_geometry_image()
InitCenters == InitSpheres \/ InitGenerate

NextCenters == NextSpheres \/ NextGenerate

SpecCenters == InitCenters /\ [][NextCenters]_vars

\* the membrane loops of the 3D and of the 2D notebook, each followed by the
\* rest of its notebook
InitLoops == InitRerun \/ Init2D

NextLoops == NextPipe \/ Next2D

SpecLoops == InitLoops /\ [][NextLoops]_vars

\* ---------------------------------------------------------------- properties
\* positions at which the membrane loop has ended and the mask is final
AfterLoop ==
    pc \in {"cell_mask", "cell_mask_exclude", "img_zeros", "img_cell",
            "img_membrane", "imwrite", "import_geometry", "done"}
\* positions at which the cell mask is final
AfterCellMask ==
    pc \in {"img_zeros", "img_cell", "img_membrane", "imwrite", "import_geometry", "done"}
\* positions at which the geometry image is final
AfterImage == pc \in {"imwrite", "import_geometry", "done"}

Abs(n) == IF n < 0 THEN -n ELSE n

\* the voxels at flat indices k and u share a face
FaceAdjacent(grid_shape, k, u) ==
    LET a == Coord(grid_shape, k)
        b == Coord(grid_shape, u)
    IN  Abs(a[1] - b[1]) + Abs(a[2] - b[2]) + Abs(a[3] - b[3]) = 1

\* the voxels at flat indices k and u touch across an edge or a corner only
DiagonalAdjacent(grid_shape, k, u) ==
    LET a == Coord(grid_shape, k)
        b == Coord(grid_shape, u)
    IN  /\ \A i \in 1..3 : Abs(a[i] - b[i]) <= 1
        /\ Abs(a[1] - b[1]) + Abs(a[2] - b[2]) + Abs(a[3] - b[3]) >= 2

\* the flat indices of the voxels that share a face with the voxel at k: in C
\* order they lie 1, X or X * Y places away
FaceAdjacentCells(grid_shape, k) ==
    {u \in {k - 1, k + 1, k - grid_shape[3], k + grid_shape[3],
            k - grid_shape[2] * grid_shape[3], k + grid_shape[2] * grid_shape[3]} :
        u \in Flat(grid_shape) /\ FaceAdjacent(grid_shape, k, u)}

Cells == DOMAIN img_indexed.data
Label(k) == img_indexed.data[k]
Membrane(k) == img_membrane_mask.data[k]

\* C1: the geometry image holds only the values 0, 1 and 2, and the cell mask
\* and the membrane mask it is built from are disjoint: no voxel is both
\* cell interior and membrane.
C1_CompartmentValues ==
    /\ AfterCellMask => \A k \in Cells : ~(img_cell_mask.data[k] /\ Membrane(k))
    /\ pc \in {"img_cell", "img_membrane"} \/ AfterImage
           => \A k \in Cells : img.data[k] \in {0, 1, 2}

\* C1 witness: a finished run with all three values in the image and an
\* occupied voxel that the membrane mask took out of the cell mask
C1_Witness ==
    /\ pc = "done"
    /\ \E k \in Cells : img.data[k] = 0
    /\ \E k \in Cells : img.data[k] = 1
    /\ \E k \in Cells : img.data[k] = 2 /\ Label(k) # 0 /\ ~img_cell_mask.data[k]

\* C2: the classifier gives a voxel the value 2 when the membrane mask flags
\* it, whatever its label, else 1 when its label is nonzero, else 0.
C2_MembranePrecedence ==
    AfterImage =>
        \A k \in Cells :
            img.data[k] = IF Membrane(k) THEN 2 ELSE IF Label(k) # 0 THEN 1 ELSE 0

\* C2 witness: a finished run with a flagged occupied voxel, a flagged
\* unoccupied voxel, an unflagged occupied voxel and an unflagged empty one
C2_Witness ==
    /\ pc = "done"
    /\ \E k \in Cells : Membrane(k) /\ Label(k) # 0 /\ img.data[k] = 2
    /\ \E k \in Cells : Membrane(k) /\ Label(k) = 0 /\ img.data[k] = 2
    /\ \E k \in Cells : ~Membrane(k) /\ Label(k) # 0 /\ img.data[k] = 1
    /\ \E k \in Cells : ~Membrane(k) /\ Label(k) = 0 /\ img.data[k] = 0

\* C3: the membrane mask covers the outer shell of every labelled object:
\* for every label L >= 1 in the grid, every voxel that is not labelled L and
\* is face-adjacent to a voxel labelled L is true in the final mask.
C3_OuterShellCovered ==
    AfterLoop =>
        \A k \in Cells, u \in Cells :
            (FaceAdjacent(img_indexed.shape, k, u) /\ Label(u) >= 1 /\ Label(k) # Label(u))
                => Membrane(k)

\* C4: a voxel is true in the membrane mask only if a face neighbour carries
\* a label value the voxel itself does not carry; a voxel all of whose in-grid
\* face neighbours carry its own label is never membrane.
C4_MembraneOnlyAtBoundary ==
    pc = "membrane_loop" \/ AfterLoop =>
        \A k \in Cells :
            Membrane(k) =>
                \E u \in Cells : FaceAdjacent(img_indexed.shape, k, u) /\ Label(u) # Label(k)

\* C4 witness: the loop has ended, some voxel is membrane, and some voxel
\* whose face neighbours all carry its label touches another label across an
\* edge or a corner and is not membrane
C4_Witness ==
    /\ AfterLoop
    /\ \E k \in Cells : Membrane(k)
    /\ \E k \in Cells :
          /\ ~Membrane(k)
          /\ \A u \in Cells : FaceAdjacent(img_indexed.shape, k, u) => Label(u) = Label(k)
          /\ \E u \in Cells :
                /\ DiagonalAdjacent(img_indexed.shape, k, u)
                /\ Label(u) # Label(k)
                /\ Label(u) < ArrayMax(img_indexed)

\* the ellipsoid drawn for object i contains the voxel at flat index k
InSampled(i, k) ==
    InEllipsoid(Coord(voxels.shape, k), sampled[i].center, sampled[i].radius,
                sampled[i].deformation)

\* n is the largest index whose ellipsoid contains the voxel, or 0 when no
\* ellipsoid contains it
IsTopObject(n, k) ==
    /\ n \in 0 .. Len(sampled)
    /\ n # 0 => InSampled(n, k)
    /\ \A i \in (n + 1) .. Len(sampled) : ~InSampled(i, k)

\* C5: every voxel of the grid spheres() returns is 0 or one of the indices
\* 1..n_spheres, and while the grid is filled a voxel holds 0 or the index of
\* an object sampled so far.
C5_LabelsAssigned ==
    /\ pc = "spheres_loop" =>
           \A k \in DOMAIN voxels.data : voxels.data[k] \in 0 .. Len(sampled)
    /\ pc = "membrane_init" =>
           \A k \in Cells : Label(k) = 0 \/ (1 <= Label(k) /\ Label(k) <= n_spheres)

\* C5 witness: spheres() has returned a grid that holds 0, the first and the
\* last of at least two indices
C5_Witness ==
    /\ pc = "membrane_init"
    /\ n_spheres >= 2
    /\ \E k \in Cells : Label(k) = 0
    /\ \E k \in Cells : Label(k) = 1
    /\ \E k \in Cells : Label(k) = n_spheres

\* C6: later objects take precedence and no label is reused: after each pass
\* of the loop, and so after the last, one object has been sampled per index
\* used and the label of a voxel is the largest index whose sampled ellipsoid
\* contains it, or 0 when none does; a voxel labelled n lies in ellipsoid n.
C6_LastWriteWins ==
    pc = "spheres_loop" =>
        /\ Len(sampled) = n_sphere - 1
        /\ \A k \in DOMAIN voxels.data : IsTopObject(voxels.data[k], k)

\* C6 witness: all objects are written, two ellipsoids overlap, the earlier
\* one keeps a voxel of its own and the overlap carries the later index
C6_Witness ==
    /\ pc = "spheres_loop"
    /\ n_spheres >= 2
    /\ n_sphere = n_spheres + 1
    /\ \E k \in DOMAIN voxels.data :
          InSampled(1, k) /\ InSampled(2, k) /\ voxels.data[k] = 2
    /\ \E k \in DOMAIN voxels.data :
          InSampled(1, k) /\ ~InSampled(2, k) /\ voxels.data[k] = 1

\* C7 as stated: with a degenerate radius range (max_radius / 2 <= 1)
\* spheres() raises no error.
C7_DegenerateTolerated == max_radius <= 2 => raised = "none"

\* C7 as amended: with n_spheres >= 1 and no integer in [1, max_radius / 2)
\* the first pass of the loop raises ValueError: nothing is sampled, no voxel
\* is written and no grid is returned; and a run raises only when the range of
\* the centre or of nuclear_radius is empty, never from the cell_radius draw.
C7_DegenerateRaises ==
    /\ (max_radius \div 2 <= 1 /\ n_spheres >= 1) =>
           /\ pc \in {"call_spheres", "spheres_loop", "raised"}
           /\ pc = "raised" => raised = "ValueError"
           /\ sampled = <<>>
           /\ img_indexed = Unbound
           /\ pc = "spheres_loop" =>
                  /\ n_sphere = 1
                  /\ \A k \in DOMAIN voxels.data : voxels.data[k] = 0
    /\ raised # "none" =>
           /\ raised = "ValueError"
           /\ max_radius \div 2 <= 1 \/ n_pixels - 2 <= 2
           /\ sampled = <<>>

\* C7 witness: the run ended in ValueError on a grid that admits a centre,
\* so the nuclear_radius draw raised
C7_Witness ==
    /\ pc = "raised"
    /\ raised = "ValueError"
    /\ n_pixels > 4
    /\ max_radius \div 2 <= 1
    /\ n_spheres >= 1

\* C8: for an all-zero label grid the membrane mask is all false and the
\* geometry image is all zero.
C8_EmptyGrid ==
    (\A k \in Cells : Label(k) = 0) =>
        /\ pc = "membrane_loop" \/ AfterLoop => \A k \in Cells : ~Membrane(k)
        /\ AfterCellMask => \A k \in Cells : ~img_cell_mask.data[k]
        /\ AfterImage => \A k \in Cells : img.data[k] = 0

\* C8 witness: a finished run on an all-zero label grid that spheres()
\* returned for n_spheres = 0
C8_Witness ==
    /\ pc = "done"
    /\ n_spheres = 0
    /\ Cells # {}
    /\ \A k \in Cells : Label(k) = 0
    /\ \A k \in Cells : model_geometry.data[k] = 0

\* C9: two adjacent cells each get their own membrane ring: when voxels of
\* two distinct labels a, b >= 1 share a face, both voxels are true in the
\* final mask.
C9_BothRings ==
    AfterLoop =>
        \A k \in Cells, u \in Cells :
            (/\ FaceAdjacent(img_indexed.shape, k, u)
             /\ Label(k) >= 1
             /\ Label(u) >= 1
             /\ Label(k) # Label(u))
                => (Membrane(k) /\ Membrane(u))

\* the centre of the sphere the label grid holds, among the centres Scenario admits
ScenarioCenter ==
    CHOOSE c \in Scenario.centers \X Scenario.centers \X Scenario.centers :
        \A k \in Cells :
            (Label(k) # 0) <=>
                InEllipsoid(Coord(img_indexed.shape, k), c, Scenario.radius,
                            Scenario.deformation)

\* the voxel at flat index k lies within the given distance of the centre c
WithinRadius(k, c, radius) ==
    InEllipsoid(Coord(img_indexed.shape, k), c, radius, Scenario.deformation)

C11_SameMaskTwice ==
    (pc = "cell_mask" /\ n_runs = 1) => img_membrane_mask = prev_membrane_mask

\* C11 witness: the second execution has ended on a grid whose mask is
\* neither empty nor full, with the indicator image of the first execution
\* left behind
C11_Witness ==
    /\ pc = "cell_mask"
    /\ n_runs = 1
    /\ img_membrane_mask = prev_membrane_mask
    /\ \E k \in Cells : Membrane(k)
    /\ \E k \in Cells : ~Membrane(k)
    /\ \E k \in Cells : img.data[k] # 0

\* C12: in the 3D notebook the grids are derived in sequence (label grid,
\* membrane mask, cell mask, geometry image); the geometry image is written
\* to geom3d.tiff exactly once, only after the cell value 1 and the membrane
\* value 2 are in it, and the model imports the geometry only after that
\* write, so it imports the finished image.
C12_DerivedInSequenceWrittenOnce ==
    /\ img_indexed = Unbound <=> pc \in {"call_spheres", "spheres_loop", "raised"}
    /\ img_membrane_mask = Unbound <=>
           pc \in {"call_spheres", "spheres_loop", "raised", "membrane_init"}
    /\ img_cell_mask = Unbound <=>
           pc \in {"call_spheres", "spheres_loop", "raised", "membrane_init",
                   "membrane_loop", "cell_mask"}
    /\ n_writes <= 1
    /\ n_writes = 0 <=> geom3d_tiff = Unbound
    /\ n_writes = 1 <=> pc \in {"import_geometry", "done"}
    /\ n_writes = 1 =>
           /\ geom3d_tiff = img
           /\ \A k \in Cells :
                  /\ img_cell_mask.data[k] => geom3d_tiff.data[k] = 1
                  /\ Membrane(k) => geom3d_tiff.data[k] = 2
    /\ model_geometry # Unbound <=> pc = "done"
    /\ model_geometry # Unbound => model_geometry = geom3d_tiff

\* C12 witness: the notebook has run to its end on a grid with an object:
\* one write, and the model holds an image with cell and membrane voxels
C12_Witness ==
    /\ pc = "done"
    /\ n_spheres >= 1
    /\ n_writes = 1
    /\ model_geometry = img
    /\ \E k \in Cells : model_geometry.data[k] = 1
    /\ \E k \in Cells : model_geometry.data[k] = 2

\* the geometry the i-th model of the list holds
GeometryOf(i) == sme_models[models[i]].geometry

\* C13: in the fitting notebook the i-th model of models has imported the
\* i-th image of geometry_images, for every model appended so far and, once
\* the loop has ended, for every image, although every image goes through
\* the one file geom3d.tiff: an image is imported before the next write
\* replaces it, the models are distinct objects and models keeps the order
\* of geometry_images.
C13_EachModelItsImage ==
    /\ \A i \in 1 .. Len(models) :
           /\ i <= Len(geometry_images)
           /\ GeometryOf(i) = geometry_images[i]
           /\ \A j \in 1 .. Len(models) : i # j => models[i] # models[j]
    /\ pc = "fit_append" => sme_models[m].geometry = geometry_images[pos]
    /\ pc = "call_cost_function" =>
           /\ Len(models) = Len(geometry_images)
           /\ n_writes = Len(geometry_images)

\* C13 witness: the loop has ended for at least two images, the first two
\* differ, the file holds the last image and the first model still holds the
\* first
C13_Witness ==
    /\ pc = "call_cost_function"
    /\ Len(models) >= 2
    /\ geometry_images[1] # geometry_images[2]
    /\ geom3d_tiff = geometry_images[Len(geometry_images)]
    /\ GeometryOf(1) = geometry_images[1]
    /\ GeometryOf(1) # GeometryOf(2)

\* positions of cost_function at which the first loop has ended
AfterApply == pc \in {"cost_simulate", "cost_return"}

\* C14: in cost_function(params) every model of models holds k1 and the
\* A_membrane diffusion constant of params before any model is simulated:
\* no simulation starts during the first loop, and every simulation of the
\* call, one per model in the order of models, ran with the values of
\* params, whatever values an earlier call left in the models.
C14_SameParamsEverywhere ==
    /\ pc = "cost_apply" => simulated = <<>>
    /\ AfterApply =>
           /\ \A i \in 1 .. Len(models) :
                  /\ sme_models[models[i]].k1 = FormatFloat(params[1])
                  /\ sme_models[models[i]].diffusion_constant = params[2]
           /\ \A j \in 1 .. Len(simulated) :
                  /\ simulated[j].model = models[j]
                  /\ simulated[j].k1 = FormatFloat(params[1])
                  /\ simulated[j].diffusion_constant = params[2]
    /\ pc = "cost_return" => Len(simulated) = Len(models)

\* C14 witness: a second call is about to return for at least two models,
\* with parameter values that differ from those of the file
C14_Witness ==
    /\ pc = "cost_return"
    /\ n_calls = 1
    /\ Len(simulated) >= 2
    /\ simulated[2].k1 # NewModel.k1
    /\ simulated[2].diffusion_constant = params[2]

\* the sum of (1 - level)^2 over the voxels of the cell compartment of the
\* j-th simulation of the call: each such voxel contributes the same square
SquaresOf(j) ==
    LET geometry == sme_models[simulated[j].model].geometry
    IN  Cardinality({k \in DOMAIN geometry.data : geometry.data[k] = simulated[j].colour})
            * (1 - simulated[j].level) * (1 - simulated[j].level)

\* the sum of SquaresOf over the first n simulations of the call
RECURSIVE SumOfSquares(_)
SumOfSquares(n) == IF n = 0 THEN 0 ELSE SumOfSquares(n - 1) + SquaresOf(n)

C16_SameSizeAsValues ==
    pc = "returned" =>
        /\ Len(ret) = Len(values)
        /\ ret[1] = Black
        /\ \A j \in 2 .. Len(ret) : ret[j] = to_rgba(cmap[((j - 2) % Len(cmap)) + 1])

\* the RGB triple the image of the call holds at position r
Pixel(r) == <<img.data[3 * r], img.data[3 * r + 1], img.data[3 * r + 2]>>

\* the positions of the image of the call: its values, three at a time
Pixels == 0 .. (Cardinality(DOMAIN img.data) \div 3) - 1

\* C17: rgb_to_scalar(img) returns an array with the shape of img without
\* its last axis, whose values lie in 0 .. K - 1 where K is the number of
\* distinct RGB triples in img, and two positions hold the same scalar
\* exactly when they hold the same triple in img.
C17_ScalarPerTriple ==
    pc = "returned" =>
        /\ Len(ret.shape) = Len(img.shape) - 1
        /\ \A a \in 1 .. Len(ret.shape) : ret.shape[a] = img.shape[a]
        /\ DOMAIN ret.data = Pixels
        /\ \A r \in Pixels :
               ret.data[r] \in 0 .. Cardinality({Pixel(q) : q \in Pixels}) - 1
        /\ \A r \in Pixels, q \in Pixels :
               (ret.data[r] = ret.data[q]) <=> (Pixel(r) = Pixel(q))

\* C17 witness: the call returned for a 2x2 image with three distinct
\* triples, one of them at two positions
C17_Witness ==
    /\ pc = "returned"
    /\ img.shape = <<2, 2, 3>>
    /\ Cardinality({Pixel(q) : q \in Pixels}) = 3
    /\ \E r \in Pixels, q \in Pixels :
          r # q /\ Pixel(r) = Pixel(q) /\ ret.data[r] = ret.data[q]
    /\ \E r \in Pixels : ret.data[r] = 2

\* C18: plot3D raises ValueError when data has neither 3 nor 4 dimensions,
\* and does so before a plotter is created or anything else happens: the
\* call ends with no plotter, no _data and nothing returned.
C18_RaisesBeforeAnyEffect ==
    (pc # "call_plot3D" /\ Len(data.shape) \notin {3, 4}) =>
        /\ pc = "raised"
        /\ raised = "ValueError"
        /\ plotter = None
        /\ plot_data = Unbound
        /\ ret = None

\* C18 witness: a call with a 5-dimensional array ended in ValueError
C18_Witness ==
    /\ pc = "raised"
    /\ raised = "ValueError"
    /\ Len(data.shape) = 5
    /\ plotter = None

\* C19: the membrane loop runs one pass for each label value from 0 to the
\* largest label of the grid, that one included: when the loop has ended,
\* every value of 0 .. max(img_indexed) has had its pass.
C19_EveryLabelVisited ==
    AfterLoop => \A value \in 0 .. ArrayMax(img_indexed) : value < index

\* the pass for the label value marks the voxel at k: the voxel does not
\* carry the value and a face neighbour does
MarkedByPass(value, k) ==
    /\ Label(k) # value
    /\ \E u \in FaceAdjacentCells(img_indexed.shape, k) : Label(u) = value

\* C20: the pass for the label 0 changes nothing: the final membrane mask is
\* the mask of the passes the loop runs for the values from 1 on.
C20_BackgroundPassHarmless ==
    AfterLoop =>
        \A k \in Cells :
            Membrane(k) <=> \E value \in 1 .. (index - 1) : MarkedByPass(value, k)

\* C21: in the 3D notebook each pass is one dilation with the 6 face
\* neighbours (the 3x3x3 kernel is not used): the pass for a label value
\* marks a voxel exactly when the voxel does not carry the value and one of
\* its in-grid face neighbours does, and the mask the loop leaves is the OR
\* of all its passes.
C21_FaceNeighbourPasses ==
    /\ (pc = "membrane_loop" /\ index >= 1) =>
           LET dilated == binary_dilation(img)
           IN  \A k \in Cells :
                   LET marked == (img.data[k] = 0) # (dilated.data[k] = FALSE)
                   IN  marked <=> MarkedByPass(index - 1, k)
    /\ pc = "cell_mask" =>
           \A k \in Cells :
               Membrane(k) <=> \E value \in 0 .. (index - 1) : MarkedByPass(value, k)

\* C21 witness: the loop has ended after two passes, and a voxel that touches
\* a value that had its pass across an edge or a corner only is not marked,
\* while another voxel is
C21_Witness ==
    /\ pc = "cell_mask"
    /\ index = 2
    /\ \E k \in Cells : Membrane(k) /\ MarkedByPass(1, k)
    /\ \E k \in Cells, u \in Cells :
          /\ DiagonalAdjacent(img_indexed.shape, k, u)
          /\ Label(u) < index
          /\ Label(u) # Label(k)
          /\ ~MarkedByPass(Label(u), k)
          /\ ~Membrane(k)

\* the number of face steps between the pixels at flat indices k and u of a
\* 2D image
CityBlock(image_shape, k, u) ==
    Abs((k \div image_shape[2]) - (u \div image_shape[2]))
        + Abs((k % image_shape[2]) - (u % image_shape[2]))

\* the 2D pass for the label value marks the pixel at k: the pixel does not
\* carry the value and a pixel at most 3 face steps away does
MarkedWithin3(value, k) ==
    /\ Label(k) # value
    /\ \E u \in Cells : Label(u) = value /\ CityBlock(img_indexed.shape, k, u) <= 3

\* the colour the 2D geometry image holds at the pixel at flat index k
Colour2D(k) == <<img.data[3 * k], img.data[3 * k + 1], img.data[3 * k + 2]>>

\* C22: in the 2D notebook a pass is a dilation repeated 3 times: the pass
\* for a label value marks a pixel exactly when the pixel does not carry the
\* value and lies within 3 face steps of a pixel that does; the geometry
\* image gives every pixel one of three colours: [255,100,100] where the
\* membrane mask is true, else [100,100,255] where the label is nonzero,
\* else [0,0,0].
C22_ThreeStepsThreeColours ==
    /\ pc \in {"membrane2d_loop", "cell_mask2d", "img2d_zeros", "img2d_cell",
               "img2d_membrane", "imwrite2d", "done2d"} =>
           \A k \in Cells :
               Membrane(k) <=> \E value \in 0 .. (index - 1) : MarkedWithin3(value, k)
    /\ pc \in {"imwrite2d", "done2d"} =>
           /\ img.shape = <<img_indexed.shape[1], img_indexed.shape[2], 3>>
           /\ \A k \in Cells :
                  Colour2D(k) = IF Membrane(k) THEN <<255, 100, 100>>
                                ELSE IF Label(k) # 0 THEN <<100, 100, 255>>
                                ELSE <<0, 0, 0>>
    /\ pc = "done2d" => geom_png = img

\* C22 witness: the 2D notebook has run to its end on an image with all
\* three colours, where a pixel 4 face steps away from the only pixels of a
\* value that had its pass is not marked
C22_Witness ==
    /\ pc = "done2d"
    /\ \E k \in Cells : Colour2D(k) = <<255, 100, 100>>
    /\ \E k \in Cells : Colour2D(k) = <<100, 100, 255>>
    /\ \E k \in Cells : Colour2D(k) = <<0, 0, 0>>
    /\ \E k \in Cells, u \in Cells :
          /\ ~Membrane(k)
          /\ Label(u) < index
          /\ Label(u) # Label(k)
          /\ CityBlock(img_indexed.shape, k, u) = 4

\* C23: every object centre sampled by spheres() and by
\* generate_geometry_image() has each coordinate an integer from 2 to
\* n_pixels - 3, so the centre voxel lies inside the grid.
C23_CentersInsideGrid ==
    \A i \in 1 .. Len(sampled) :
        /\ \A j \in 1 .. 3 :
               /\ sampled[i].center[j] \in Int
               /\ sampled[i].center[j] >= 2
               /\ sampled[i].center[j] <= n_pixels - 3
               /\ sampled[i].center[j] >= 0
               /\ sampled[i].center[j] < n_pixels
        /\ voxels # Unbound =>
               /\ voxels.shape = <<n_pixels, n_pixels, n_pixels>>
               /\ (sampled[i].center[1] * n_pixels + sampled[i].center[2]) * n_pixels
                      + sampled[i].center[3] \in DOMAIN voxels.data

\* C23 witness: generate_geometry_image has returned an image whose centre
\* has one coordinate at the lower and one at the upper end of the range
C23_Witness ==
    /\ pc = "generated"
    /\ Len(sampled) = 1
    /\ sampled[1].center[1] = n_pixels - 3
    /\ sampled[1].center[2] = 2
    /\ sampled[1].center[1] > 2

\* C24: when spheres() returns for n_spheres >= 1 (no range was empty), the
\* largest label of the grid is exactly n_spheres: after each pass of the
\* loop the centre voxel of the object just written carries its index, the
\* largest in the grid. An earlier index can be absent, covered by later
\* objects.
C24_MaxLabelIsNSpheres ==
    /\ (pc = "spheres_loop" /\ Len(sampled) >= 1) =>
           LET c == sampled[Len(sampled)].center
           IN  /\ voxels.data[(c[1] * n_pixels + c[2]) * n_pixels + c[3]] = Len(sampled)
               /\ \A k \in DOMAIN voxels.data : voxels.data[k] <= Len(sampled)
    /\ (pc = "membrane_init" /\ n_spheres >= 1) =>
           /\ \E k \in Cells : Label(k) = n_spheres
           /\ \A k \in Cells : Label(k) <= n_spheres

\* C24 witness: spheres() has returned a grid for two objects in which the
\* index 1 is absent and the index 2 is present
C24_Witness ==
    /\ pc = "membrane_init"
    /\ n_spheres = 2
    /\ \E k \in Cells : Label(k) = 2
    /\ \A k \in Cells : Label(k) # 1

\* C25: in the geometry image every voxel classified outside (0) has the
\* label 0 and every voxel with a nonzero label is classified 1 or 2: the
\* classification never turns an object voxel into outside, while a
\* background voxel can become membrane.
C25_ObjectsNeverOutside ==
    AfterImage =>
        \A k \in Cells :
            /\ img.data[k] \in {0, 1, 2}
            /\ img.data[k] = 0 => Label(k) = 0
            /\ Label(k) # 0 => img.data[k] \in {1, 2}

\* C25 witness: a finished run in which a background voxel is membrane,
\* another is outside, and object voxels are classified 1 and 2
C25_Witness ==
    /\ pc = "done"
    /\ \E k \in Cells : Label(k) = 0 /\ img.data[k] = 2
    /\ \E k \in Cells : Label(k) = 0 /\ img.data[k] = 0
    /\ \E k \in Cells : Label(k) # 0 /\ img.data[k] = 1
    /\ \E k \in Cells : Label(k) # 0 /\ img.data[k] = 2

\* the orders in which the n values 0 .. n-1 can be processed
Orders(n) == {f \in [1 .. n -> 0 .. (n - 1)] : \A i, j \in 1 .. n : i # j => f[i] # f[j]}

\* what the pass of the loop for a value or-s into the mask
PassOf(value) ==
    IF Len(img_indexed.shape) = 3
    THEN DilationDiff(Indicator(img_indexed, value))
    ELSE DilationDiff2D(Indicator(img_indexed, value))

\* the mask the loop body leaves when it processes the first n values of an
\* order, from the all-false mask on
RECURSIVE MaskInOrder(_, _)
MaskInOrder(order, n) ==
    IF n = 0
    THEN [shape |-> img_indexed.shape, data |-> [k \in Cells |-> FALSE]]
    ELSE ArrayOr(MaskInOrder(order, n - 1), PassOf(order[n]))

\* once the mask exists, no step turns a true entry false
MaskOnlyGrows ==
    img_membrane_mask # Unbound =>
        /\ img_membrane_mask' # Unbound
        /\ \A k \in Cells : img_membrane_mask.data[k] => img_membrane_mask'.data[k]

\* the mask the loop has left is the one every order of its values gives
AnyOrderSameMask ==
    pc \in {"cell_mask", "cell_mask2d"} =>
        \A order \in Orders(index) : MaskInOrder(order, index) = img_membrane_mask

\* C26: during the membrane loop (3D and 2D) the mask only grows: an entry
\* set true by one pass stays true after every later pass; and the final
\* mask does not depend on the order in which the label values are
\* processed.
C26_GrowsInAnyOrder == [][MaskOnlyGrows]_vars /\ []AnyOrderSameMask

\* C26 witness: the 3D loop has ended after two passes, each of which set an
\* entry the other did not, and the entry set by the first is still true
C26_Witness ==
    /\ pc = "cell_mask"
    /\ index = 2
    /\ \E k \in Cells : PassOf(0).data[k] /\ ~PassOf(1).data[k] /\ Membrane(k)
    /\ \E k \in Cells : PassOf(1).data[k] /\ ~PassOf(0).data[k] /\ Membrane(k)

====
